---- MODULE Spec2Model ----
(***************************************************************************)
(* Model of dev-server.py: an HTTPServer running LoggingHTTPRequestHandler *)
(* (do_POST for /api/log, do_OPTIONS for CORS preflight).                  *)
(*                                                                         *)
(* A request body is a sequence of tokens; one token stands for one byte   *)
(* run of the body, and Content-Length counts tokens.  debug.log is a      *)
(* sequence of lines, a line being the triple the f-string of line 22 is   *)
(* built from.  Every call that touches the outside world (open/write of   *)
(* debug.log, print, wfile.write) either succeeds or raises.               *)
(***************************************************************************)
EXTENDS Integers, Sequences, FiniteSets, TLC

\* Number of client connections made over the server's lifetime.
NumConns == 2

Conns == 1..NumConns

----------------------------------------------------------------------------
(* Request bodies *)

Tok(t, v) == [t |-> t, v |-> v]

LBrace   == Tok("punct", "{")
RBrace   == Tok("punct", "}")
LBracket == Tok("punct", "[")
RBracket == Tok("punct", "]")
Colon    == Tok("punct", ":")
Comma    == Tok("punct", ",")
Str(s)   == Tok("str", s)
Null     == Tok("null", "null")
Num7     == Tok("num", "7")
\* a byte that is not valid UTF-8
BadByte  == Tok("bad", "\\xff")
\* text that is not JSON
Junk     == Tok("junk", "oops")

\* The JSON escape of a lone surrogate: valid JSON, not encodable as UTF-8.
Surrogate == "\\ud800"

LevelVals == {Str("ERROR"), Null}
MsgVals   == {Str("boom"), Str(Surrogate), Null}

ObjectBodies ==
    {<<LBrace, Str("level"), Colon, L, Comma, Str("message"), Colon, M, RBrace>> :
        L \in LevelVals, M \in MsgVals}
    \cup {<<LBrace, Str("level"), Colon, L, RBrace>> : L \in LevelVals}
    \cup {<<LBrace, Str("message"), Colon, M, RBrace>> : M \in MsgVals}
    \cup {<<LBrace, RBrace>>}

OtherBodies ==
    {<<LBracket, RBracket>>, <<Num7>>, <<Junk>>, <<BadByte>>, <<>>}

Bodies == ObjectBodies \cup OtherBodies

----------------------------------------------------------------------------
(* json.loads(post_data.decode('utf-8')) *)

IsValueTok(t) == t.t \in {"str", "null", "num"}

\* bytes.decode('utf-8'): raises UnicodeDecodeError on an invalid byte
DecodeFails(bytes) == \E i \in 1..Len(bytes) : bytes[i].t = "bad"

EmptyDict == [k \in {} |-> Null]

PyError == [ok |-> FALSE, kind |-> "error", d |-> EmptyDict]
PyDict(d) == [ok |-> TRUE, kind |-> "dict", d |-> d]
PyOther(k) == [ok |-> TRUE, kind |-> k, d |-> EmptyDict]

\* ParseMembers accepting an object whose text ends before its closing brace
RECURSIVE ParseMembersLenient(_, _, _)
ParseMembersLenient(text, i, acc) ==
    IF i + 3 > Len(text) THEN PyDict(acc)
    ELSE IF text[i].t # "str" \/ text[i+1] # Colon \/ ~IsValueTok(text[i+2])
    THEN PyError
    ELSE LET d == (text[i].v :> text[i+2]) @@ acc IN
         IF text[i+3] = RBrace
         THEN IF i + 3 = Len(text) THEN PyDict(d) ELSE PyError
         ELSE IF text[i+3] = Comma THEN ParseMembersLenient(text, i + 4, d)
         ELSE PyError

\* members of an object, text[i] being where a key is expected; a later
\* duplicate of a key replaces the earlier one
RECURSIVE ParseMembers(_, _, _)
ParseMembers(text, i, acc) ==
    IF i + 3 > Len(text) THEN PyError
    ELSE IF text[i].t # "str" \/ text[i+1] # Colon \/ ~IsValueTok(text[i+2])
    THEN PyError
    ELSE LET d == (text[i].v :> text[i+2]) @@ acc IN
         IF text[i+3] = RBrace
         THEN IF i + 3 = Len(text) THEN PyDict(d) ELSE PyError
         ELSE IF text[i+3] = Comma THEN ParseMembers(text, i + 4, d)
         ELSE PyError

json_loads(text) ==
    IF Len(text) = 0 THEN PyError
    ELSE IF text[1] = LBrace
    THEN IF Len(text) = 2 /\ text[2] = RBrace THEN PyDict(EmptyDict)
         ELSE ParseMembers(text, 2, EmptyDict)
    ELSE IF text[1] = LBracket
    THEN IF Len(text) = 2 /\ text[2] = RBracket THEN PyOther("list")
         ELSE PyError
    ELSE IF Len(text) = 1 /\ IsValueTok(text[1]) THEN PyOther("scalar")
    ELSE PyError

\* line 20 as a whole
LoadBody(post_data) ==
    IF DecodeFails(post_data) THEN PyError ELSE json_loads(post_data)

----------------------------------------------------------------------------
(* Lines 21-22: the log line *)

\* dict_get falling back to the default for a null value too
dict_get_or_null(d, k, default) ==
    IF k \in DOMAIN d /\ d[k] # Null THEN d[k] ELSE default

dict_get(d, k, default) == IF k \in DOMAIN d THEN d[k] ELSE default

\* what an f-string field shows of a value: None for null, the text of a string
PyStr(v) == IF v.t = "null" THEN "None" ELSE v.v

Line(ts, level, message) == [ts |-> ts, level |-> level, message |-> message]

\* f"[{timestamp}] {log_data.get('level', 'LOG')}: {log_data.get('message', '')}\n"
FormatLine(ts, d) ==
    Line(ts, PyStr(dict_get(d, "level", Str("LOG"))),
             PyStr(dict_get(d, "message", Str(""))))

NoLine == Line(0, "", "")

\* the text layer of open('debug.log', 'a') encodes strictly: a lone surrogate
\* raises UnicodeEncodeError
Encodable(line) == line.level # Surrogate /\ line.message # Surrogate

----------------------------------------------------------------------------
(* Requests *)

CLen(t, n) == [t |-> t, n |-> n]
NoCLen  == CLen("absent", 0)
BadCLen == CLen("bad", 0)

LogPath == <<"/api", "/log">>
Paths == {LogPath, <<"/api", "/log", "?x=1">>, <<"/other">>}

Request(m, p, cl, b) == [method |-> m, path |-> p, clen |-> cl, body |-> b]
NoReq == Request("none", <<>>, NoCLen, <<>>)

CLenChoices(b) == {NoCLen, BadCLen} \cup {CLen("num", n) : n \in 0..(Len(b) + 1)}

LogPosts ==
    UNION {{Request("POST", LogPath, cl, b) : cl \in CLenChoices(b)} : b \in Bodies}

OtherBodiesSent ==
    {<<>>, <<Junk>>, <<LBrace, Str("message"), Colon, Str("boom"), RBrace>>}

OtherPosts ==
    UNION {{Request("POST", p, cl, b) : cl \in {NoCLen, CLen("num", Len(b))},
                                        p \in Paths \ {LogPath}} :
           b \in OtherBodiesSent}

OptionsReqs == {Request("OPTIONS", p, NoCLen, <<>>) : p \in Paths}

Requests == LogPosts \cup OtherPosts \cup OptionsReqs

----------------------------------------------------------------------------
(* Responses: what send_response, send_header, end_headers and wfile.write *)
(* put in the headers buffer and on the connection                         *)

Item(k, n, v) == [k |-> k, n |-> n, v |-> v]
Status(code)  == Item("status", code, "")
Header(n, v)  == Item("header", n, v)
EndHeaders    == Item("end", "", "")
Body(v)       == Item("body", "", v)

\* send_response(code): status line, then the Server and Date headers
send_response(buf, code) ==
    buf \o <<Status(code), Header("Server", ""), Header("Date", "")>>
send_header(buf, n, v) == Append(buf, Header(n, v))
\* end_headers(): the blank line; the flush is the caller's step
end_headers(buf) == Append(buf, EndHeaders)

OkBody == "{\"status\":\"ok\"}"

\* lines 32-35
Headers200(buf) ==
    end_headers(
      send_header(
        send_header(send_response(buf, "200"),
                    "Content-type", "application/json"),
        "Access-Control-Allow-Origin", "*"))

\* HeadersOptions without the Access-Control-Allow-Headers header
HeadersOptionsShort(buf) ==
    end_headers(
      send_header(
        send_header(send_response(buf, "200"),
                    "Access-Control-Allow-Origin", "*"),
        "Access-Control-Allow-Methods", "POST, OPTIONS"))

\* lines 47-51
HeadersOptions(buf) ==
    end_headers(
      send_header(
        send_header(
          send_header(send_response(buf, "200"),
                      "Access-Control-Allow-Origin", "*"),
          "Access-Control-Allow-Methods", "POST, OPTIONS"),
        "Access-Control-Allow-Headers", "Content-Type"))

\* lines 39-40 and 42-43, on top of whatever the buffer still holds
HeadersOnly(buf, code) == end_headers(send_response(buf, code))

\* IsLogPath as a prefix test (startswith)
IsLogPathPrefix(p) ==
    Len(p) >= Len(LogPath) /\ SubSeq(p, 1, Len(LogPath)) = LogPath

\* line 14
IsLogPath(p) == p = LogPath

----------------------------------------------------------------------------
(* State *)

VARIABLES
    serving,    \* the process is inside httpd.serve_forever()
    conn,       \* per connection: the handler's position and locals
    log,        \* debug.log, a sequence of lines
    clock,      \* the reading datetime.now() gives next
    anyFailed   \* some POST /api/log has ended without its 200 response

vars == <<serving, conn, log, clock, anyFailed>>

\* pc: new (not yet connected), queued (in the listen backlog), do_POST,
\* read, try, open, write, print, send200, body, except, send500,
\* do_OPTIONS, raised (an exception left the handler), done, closed.
\* faults: the outside calls that raised in this request.
\* logAtStart, afterFailure: debug.log and anyFailed when the handler began.
FreshConn(pc) ==
    [pc |-> pc, req |-> NoReq, post_data |-> <<>>, log_message |-> NoLine,
     hbuf |-> <<>>, wire |-> <<>>, faults |-> {}, raised |-> FALSE,
     logAtStart |-> <<>>, afterFailure |-> FALSE]

PriorLine == Line(0, "LOG", "earlier run")

Init ==
    /\ serving = TRUE
    /\ conn = [c \in Conns |-> FreshConn("new")]
    /\ log \in {<<>>, <<PriorLine>>}
    /\ clock = 1
    /\ anyFailed = FALSE

Set(c, r) == conn' = [conn EXCEPT ![c] = r]

Raise(h, fault) ==
    [h EXCEPT !.faults = @ \cup {fault}, !.pc = "raised", !.raised = TRUE]
Except(h, fault) == [h EXCEPT !.faults = @ \cup {fault}, !.pc = "except"]

----------------------------------------------------------------------------
(* The server loop: run(), lines 53-58 *)

\* a client connects and sends its request; the kernel queues the connection
Connect(c) ==
    /\ conn[c].pc = "new"
    /\ Set(c, [conn[c] EXCEPT !.pc = "queued"])
    /\ UNCHANGED <<serving, log, clock, anyFailed>>

\* CanAccept of a server that hands each connection to its own thread
CanAcceptThreaded == TRUE

\* HTTPServer handles a request inside the accept loop: the next connection
\* is taken only when no handler is running
CanAccept == \A c \in Conns : conn[c].pc \in {"new", "queued", "closed"}

Dispatch(r) == IF r.method = "POST" THEN "do_POST" ELSE "do_OPTIONS"

Accept(c) ==
    /\ serving
    /\ CanAccept
    /\ conn[c].pc = "queued"
    /\ \E r \in Requests :
         Set(c, [conn[c] EXCEPT !.req = r, !.pc = Dispatch(r),
                                !.logAtStart = log,
                                !.afterFailure = anyFailed])
    /\ UNCHANGED <<serving, log, clock, anyFailed>>

\* HandleError of a loop that lets the exception end serve_forever()
HandleErrorStops(c) ==
    /\ conn[c].pc = "raised"
    /\ Set(c, [conn[c] EXCEPT !.pc = "done"])
    /\ serving' = FALSE
    /\ UNCHANGED <<log, clock, anyFailed>>

\* an exception that leaves the handler is reported by the server loop
\* (handle_error), the connection is dropped and the loop goes on
HandleError(c) ==
    /\ conn[c].pc = "raised"
    /\ Set(c, [conn[c] EXCEPT !.pc = "done"])
    /\ UNCHANGED <<serving, log, clock, anyFailed>>

Has200(w) == \E i \in 1..Len(w) : w[i] = Status("200")

FailedLogPost(h) ==
    h.req.method = "POST" /\ IsLogPath(h.req.path) /\ ~Has200(h.wire)

\* shutdown_request: the connection is closed and the handler dropped
Shutdown(c) ==
    /\ conn[c].pc = "done"
    /\ Set(c, FreshConn("closed"))
    /\ anyFailed' = (anyFailed \/ FailedLogPost(conn[c]))
    /\ UNCHANGED <<serving, log, clock>>

----------------------------------------------------------------------------
(* do_POST, lines 13-43 *)

\* lines 41-43: any other path
PostNotFound(c) ==
    LET h == conn[c]
        buf == HeadersOnly(h.hbuf, "404") IN
    /\ h.pc = "do_POST"
    /\ ~IsLogPath(h.req.path)
    /\ \E ok \in BOOLEAN :
         IF ok
         THEN Set(c, [h EXCEPT !.wire = @ \o buf, !.hbuf = <<>>, !.pc = "done"])
         ELSE Set(c, Raise([h EXCEPT !.hbuf = buf], "sock"))
    /\ UNCHANGED <<serving, log, clock, anyFailed>>

\* line 16, outside the try: int(self.headers['Content-Length']) raises
\* TypeError when the header is absent and ValueError when it is no number
ReadContentLength(c) ==
    LET h == conn[c] IN
    /\ h.pc = "do_POST"
    /\ IsLogPath(h.req.path)
    /\ IF h.req.clen.t = "num"
       THEN Set(c, [h EXCEPT !.pc = "read"])
       ELSE Set(c, [h EXCEPT !.pc = "raised", !.raised = TRUE])
    /\ UNCHANGED <<serving, log, clock, anyFailed>>

\* line 17: the first Content-Length bytes of what the client sent
ReadBody(c) ==
    LET h == conn[c] IN
    /\ h.pc = "read"
    /\ h.req.clen.n <= Len(h.req.body)
    /\ Set(c, [h EXCEPT !.post_data = SubSeq(h.req.body, 1, h.req.clen.n),
                        !.pc = "try"])
    /\ UNCHANGED <<serving, log, clock, anyFailed>>

\* line 17 with fewer bytes sent than declared: the read waits, and returns
\* what there is once the client has closed its sending side
ReadBodyToEOF(c) ==
    LET h == conn[c] IN
    /\ h.pc = "read"
    /\ h.req.clen.n > Len(h.req.body)
    /\ Set(c, [h EXCEPT !.post_data = h.req.body, !.pc = "try"])
    /\ UNCHANGED <<serving, log, clock, anyFailed>>

\* lines 20-22: decode, parse, take the time, format
ParseAndFormat(c) ==
    LET h == conn[c]
        log_data == LoadBody(h.post_data) IN
    /\ h.pc = "try"
    /\ IF ~log_data.ok
       THEN /\ Set(c, [h EXCEPT !.pc = "except"])
            /\ UNCHANGED clock
       ELSE /\ clock' = clock + 1
            /\ IF log_data.kind = "dict"
               THEN Set(c, [h EXCEPT
                        !.log_message = FormatLine(clock, log_data.d),
                        !.pc = "open"])
               \* a list or a scalar has no get: AttributeError
               ELSE Set(c, [h EXCEPT !.pc = "except"])
    /\ UNCHANGED <<serving, log, anyFailed>>

\* line 25: open('debug.log', 'a')
OpenLog(c) ==
    LET h == conn[c] IN
    /\ h.pc = "open"
    /\ \E ok \in BOOLEAN :
         IF ok THEN Set(c, [h EXCEPT !.pc = "write"])
         ELSE Set(c, Except(h, "file"))
    /\ UNCHANGED <<serving, log, clock, anyFailed>>

\* line 26 and the end of the with block: the line is encoded, and appended
\* when the file is flushed and closed; a failed append leaves the file as
\* it was
WriteLog(c) ==
    LET h == conn[c] IN
    /\ h.pc = "write"
    /\ IF ~Encodable(h.log_message)
       THEN /\ Set(c, [h EXCEPT !.pc = "except"])
            /\ UNCHANGED log
       ELSE \E ok \in BOOLEAN :
              IF ok
              THEN /\ log' = Append(log, h.log_message)
                   /\ Set(c, [h EXCEPT !.pc = "print"])
              ELSE /\ Set(c, Except(h, "file"))
                   /\ UNCHANGED log
    /\ UNCHANGED <<serving, clock, anyFailed>>

\* line 29: print(log_message, end='')
Echo(c) ==
    LET h == conn[c] IN
    /\ h.pc = "print"
    /\ \E ok \in BOOLEAN :
         IF ok THEN Set(c, [h EXCEPT !.pc = "send200"])
         ELSE Set(c, Except(h, "stdout"))
    /\ UNCHANGED <<serving, log, clock, anyFailed>>

\* lines 32-35: end_headers() writes the buffer and empties it; a write that
\* raises leaves the buffer as it is
Send200(c) ==
    LET h == conn[c]
        buf == Headers200(h.hbuf) IN
    /\ h.pc = "send200"
    /\ \E ok \in BOOLEAN :
         IF ok
         THEN Set(c, [h EXCEPT !.wire = @ \o buf, !.hbuf = <<>>, !.pc = "body"])
         ELSE Set(c, Except([h EXCEPT !.hbuf = buf], "sock"))
    /\ UNCHANGED <<serving, log, clock, anyFailed>>

\* line 36
WriteBody(c) ==
    LET h == conn[c] IN
    /\ h.pc = "body"
    /\ \E ok \in BOOLEAN :
         IF ok
         THEN Set(c, [h EXCEPT !.wire = Append(@, Body(OkBody)), !.pc = "done"])
         ELSE Set(c, Except(h, "sock"))
    /\ UNCHANGED <<serving, log, clock, anyFailed>>

\* line 38: print(f"Error logging: {e}")
ExceptPrint(c) ==
    LET h == conn[c] IN
    /\ h.pc = "except"
    /\ \E ok \in BOOLEAN :
         IF ok THEN Set(c, [h EXCEPT !.pc = "send500"])
         ELSE Set(c, Raise(h, "stdout"))
    /\ UNCHANGED <<serving, log, clock, anyFailed>>

\* lines 39-40
Send500(c) ==
    LET h == conn[c]
        buf == HeadersOnly(h.hbuf, "500") IN
    /\ h.pc = "send500"
    /\ \E ok \in BOOLEAN :
         IF ok
         THEN Set(c, [h EXCEPT !.wire = @ \o buf, !.hbuf = <<>>, !.pc = "done"])
         ELSE Set(c, Raise([h EXCEPT !.hbuf = buf], "sock"))
    /\ UNCHANGED <<serving, log, clock, anyFailed>>

----------------------------------------------------------------------------
(* do_OPTIONS, lines 45-51 *)

DoOptions(c) ==
    LET h == conn[c]
        buf == HeadersOptions(h.hbuf) IN
    /\ h.pc = "do_OPTIONS"
    /\ \E ok \in BOOLEAN :
         IF ok
         THEN Set(c, [h EXCEPT !.wire = @ \o buf, !.hbuf = <<>>, !.pc = "done"])
         ELSE Set(c, Raise([h EXCEPT !.hbuf = buf], "sock"))
    /\ UNCHANGED <<serving, log, clock, anyFailed>>

----------------------------------------------------------------------------

Next ==
    \E c \in Conns :
        \/ Connect(c)
        \/ Accept(c)
        \/ PostNotFound(c)
        \/ ReadContentLength(c)
        \/ ReadBody(c)
        \/ ReadBodyToEOF(c)
        \/ ParseAndFormat(c)
        \/ OpenLog(c)
        \/ WriteLog(c)
        \/ Echo(c)
        \/ Send200(c)
        \/ WriteBody(c)
        \/ ExceptPrint(c)
        \/ Send500(c)
        \/ DoOptions(c)
        \/ HandleError(c)
        \/ Shutdown(c)

Spec == Init /\ [][Next]_vars

----------------------------------------------------------------------------
(* What a finished request shows: read off the request as the client sent  *)
(* it, the connection and debug.log                                        *)

Finished(c) == conn[c].pc = "done"

IsLogPost(h) == h.req.method = "POST" /\ h.req.path = LogPath

StatusCodes(w) ==
    LET st == SelectSeq(w, LAMBDA x : x.k = "status") IN
    [i \in 1..Len(st) |-> st[i].n]

BodiesOn(w) ==
    LET bs == SelectSeq(w, LAMBDA x : x.k = "body") IN
    [i \in 1..Len(bs) |-> bs[i].v]

HasHeader(w, n, v) == \E i \in 1..Len(w) : w[i] = Header(n, v)

\* the response is one status line with this code, and this list of bodies
Answered(h, code, bodies) ==
    StatusCodes(h.wire) = <<code>> /\ BodiesOn(h.wire) = bodies

Appended(h) == SubSeq(log, Len(h.logAtStart) + 1, Len(log))
LogUntouched(h) == log = h.logAtStart

ExactLength(h) == h.req.clen = CLen("num", Len(h.req.body))

\* the bytes the declared length selects from what was sent
Received(h) ==
    IF h.req.clen.n <= Len(h.req.body)
    THEN SubSeq(h.req.body, 1, h.req.clen.n) ELSE h.req.body

\* the JSON texts among the bodies and their prefixes
ValidJson == ObjectBodies \cup {<<LBracket, RBracket>>, <<Num7>>}

HasKey(b, k) == \E i \in 1..(Len(b) - 2) : b[i] = Str(k) /\ b[i+1] = Colon
ValueOf(b, k) ==
    LET i == CHOOSE j \in 1..(Len(b) - 2) : b[j] = Str(k) /\ b[j+1] = Colon
    IN b[i+2]

----------------------------------------------------------------------------
\* C1: a POST to /api/log whose body is a JSON object {"level": L,
\* "message": M} with string L and M and a matching Content-Length is
\* answered 200 with body {"status":"ok"}, and debug.log gains exactly the
\* one line [ts] L: M after its previous content (no outside call failing).
C1_Original ==
    \A c \in Conns, L \in LevelVals, M \in MsgVals :
        LET h == conn[c] IN
        ( /\ Finished(c) /\ IsLogPost(h) /\ ExactLength(h)
          /\ L.t = "str" /\ M.t = "str"
          /\ h.req.body = <<LBrace, Str("level"), Colon, L, Comma,
                            Str("message"), Colon, M, RBrace>>
          /\ h.faults = {} )
        => /\ Answered(h, "200", <<OkBody>>)
           /\ Len(Appended(h)) = 1
           /\ Appended(h)[1].level = L.v
           /\ Appended(h)[1].message = M.v
           /\ SubSeq(log, 1, Len(h.logAtStart)) = h.logAtStart

C3_Original ==
    \A c \in Conns :
        LET h == conn[c] IN
        ( /\ Finished(c) /\ IsLogPost(h)
          /\ Appended(h) = <<>>
          /\ "stdout" \notin h.faults /\ "sock" \notin h.faults )
        => Answered(h, "500", <<>>)

\* the level and message a line must show: the default for an absent key
\* or a null, else the supplied text
ClaimedField(b, k, default) ==
    IF ~HasKey(b, k) \/ ValueOf(b, k) = Null THEN default ELSE ValueOf(b, k).v

\* the same with a null shown as the text None
ShownField(b, k, default) ==
    IF ~HasKey(b, k) THEN default
    ELSE IF ValueOf(b, k) = Null THEN "None" ELSE ValueOf(b, k).v

LoggedObject(c) ==
    LET h == conn[c] IN
    /\ Finished(c) /\ IsLogPost(h) /\ ExactLength(h)
    /\ h.req.body \in ObjectBodies
    /\ Len(Appended(h)) = 1

\* C4 as claimed: the appended line shows LOG for an absent or null level
\* and the empty string for an absent or null message, else the values
\* (no outside call failing).
C4_Original ==
    \A c \in Conns :
        (LoggedObject(c) /\ conn[c].faults = {}) =>
            /\ Appended(conn[c])[1].level
                 = ClaimedField(conn[c].req.body, "level", "LOG")
            /\ Appended(conn[c])[1].message
                 = ClaimedField(conn[c].req.body, "message", "")

\* C4 amended: the appended line shows LOG for an absent level and the
\* empty string for an absent message; a null is shown as the text None;
\* any other value is shown as supplied.
C4_DefaultsOnlyWhenAbsent ==
    \A c \in Conns :
        LoggedObject(c) =>
            /\ Appended(conn[c])[1].level
                 = ShownField(conn[c].req.body, "level", "LOG")
            /\ Appended(conn[c])[1].message
                 = ShownField(conn[c].req.body, "message", "")

C4_Witness ==
    \E c \in Conns :
        /\ LoggedObject(c)
        /\ HasKey(conn[c].req.body, "level")
        /\ ValueOf(conn[c].req.body, "level") = Null
        /\ ~HasKey(conn[c].req.body, "message")
        /\ Appended(conn[c])[1].level = "None"
        /\ Appended(conn[c])[1].message = ""

\* C5: debug.log only grows, and a request adds one line when it is a POST
\* to /api/log answered 200 and none otherwise (the handler returning and
\* the socket writes succeeding).
C5_Original ==
    \A c \in Conns :
        LET h == conn[c] IN
        Finished(c) =>
            /\ Len(log) >= Len(h.logAtStart)
            /\ SubSeq(log, 1, Len(h.logAtStart)) = h.logAtStart
            /\ (("sock" \notin h.faults /\ ~h.raised) =>
                  Len(Appended(h)) =
                      IF IsLogPost(h) /\ Has200(h.wire) THEN 1 ELSE 0)

\* a request of the kinds the server answers as documented
WellFormed(h) ==
    \/ h.req.method = "OPTIONS"
    \/ h.req.method = "POST" /\ h.req.path # LogPath
    \/ /\ IsLogPost(h) /\ ExactLength(h)
       /\ h.req.body \in ObjectBodies
       /\ \A i \in 1..Len(h.req.body) : h.req.body[i] # Str(Surrogate)

RightAnswer(h) ==
    IF h.req.method = "OPTIONS" THEN Answered(h, "200", <<>>) /\ LogUntouched(h)
    ELSE IF h.req.path # LogPath THEN Answered(h, "404", <<>>) /\ LogUntouched(h)
    ELSE Answered(h, "200", <<OkBody>>) /\ Len(Appended(h)) = 1

\* C6: the server never leaves serve_forever(), and a request handled after
\* a failed POST /api/log is answered as it would have been before it.
C6_ServerSurvives ==
    /\ serving
    /\ \A c \in Conns :
        LET h == conn[c] IN
        (Finished(c) /\ h.afterFailure /\ h.faults = {} /\ WellFormed(h))
            => RightAnswer(h)

C6_Witness ==
    \E c \in Conns :
        LET h == conn[c] IN
        /\ Finished(c) /\ h.afterFailure /\ h.faults = {}
        /\ IsLogPost(h) /\ WellFormed(h)
        /\ Answered(h, "200", <<OkBody>>)
        /\ Len(Appended(h)) = 1

\* C7: an OPTIONS request, whatever its path, leaves debug.log unchanged
\* and is answered 200 with the three CORS headers and no body (the socket
\* write succeeding).
C7_OptionsAnswer ==
    \A c \in Conns :
        LET h == conn[c] IN
        (Finished(c) /\ h.req.method = "OPTIONS") =>
            /\ LogUntouched(h)
            /\ ("sock" \notin h.faults =>
                  /\ Answered(h, "200", <<>>)
                  /\ HasHeader(h.wire, "Access-Control-Allow-Origin", "*")
                  /\ HasHeader(h.wire, "Access-Control-Allow-Methods",
                               "POST, OPTIONS")
                  /\ HasHeader(h.wire, "Access-Control-Allow-Headers",
                               "Content-Type"))

C7_Witness ==
    \E c \in Conns :
        LET h == conn[c] IN
        /\ Finished(c) /\ h.req.method = "OPTIONS" /\ h.req.path # LogPath
        /\ Answered(h, "200", <<>>)
        /\ log # <<>>

\* C8: a POST to any path but /api/log leaves debug.log unchanged, reads and
\* parses no body, and is answered 404 with no body and no header beyond
\* the defaults (the socket write succeeding).
C8_OtherPostIs404 ==
    \A c \in Conns :
        LET h == conn[c] IN
        (Finished(c) /\ h.req.method = "POST" /\ h.req.path # LogPath) =>
            /\ LogUntouched(h)
            /\ h.post_data = <<>>
            /\ h.log_message = NoLine
            /\ ("sock" \notin h.faults =>
                  /\ Answered(h, "404", <<>>)
                  /\ h.wire = <<Status("404"), Header("Server", ""),
                                Header("Date", ""), EndHeaders>>)

C8_Witness ==
    \E c \in Conns :
        LET h == conn[c] IN
        /\ Finished(c) /\ h.req.method = "POST"
        /\ h.req.path = <<"/api", "/log", "?x=1">>
        /\ h.req.body = <<LBrace, Str("message"), Colon, Str("boom"), RBrace>>
        /\ ExactLength(h)
        /\ Answered(h, "404", <<>>)

Running(c) == conn[c].pc \notin {"new", "queued", "closed"}

\* C9: while one request has debug.log open no other request is being
\* handled, and what a request appends is its own line, whole, directly
\* after the content the file had when the request began.
C9_WritesDoNotInterleave ==
    /\ \A c1, c2 \in Conns :
        (c1 # c2 /\ conn[c1].pc \in {"open", "write"}) => ~Running(c2)
    /\ \A c \in Conns :
        conn[c].pc = "print" =>
            log = Append(conn[c].logAtStart, conn[c].log_message)

C9_Witness ==
    \E c1, c2 \in Conns :
        /\ c1 # c2
        /\ conn[c1].pc = "print"
        /\ conn[c2].pc = "queued"
        /\ log = Append(conn[c1].logAtStart, conn[c1].log_message)

\* C10: a finished POST has put exactly one status line on its connection
\* (the socket writes succeeding), and no connection ever carries a 500
\* status line after a 200 status line.
C10_Original ==
    \A c \in Conns :
        LET h == conn[c]
            codes == StatusCodes(h.wire) IN
        /\ (Finished(c) /\ h.req.method = "POST" /\ "sock" \notin h.faults)
              => (Len(codes) = 1 /\ codes[1] \in {"200", "404", "500"})
        /\ ~ \E i, j \in 1..Len(codes) :
                i < j /\ codes[i] = "200" /\ codes[j] = "500"

====
